---- MODULE Spec2Model ----
(***************************************************************************)
(* Model of the AssetAnalysis dashboard: the upload run of App.tsx         *)
(* (handleUpload: sampler, FileReader encode, analyzeAsset per sample,     *)
(* synthesizeCollectionSummary, publication of the results), reset, and    *)
(* the aggregation of AnalysisDashboard.reportData.                        *)
(***************************************************************************)
EXTENDS Integers, Sequences, FiniteSets, TLC

VARIABLES
    results,        \* App state: AnalysisResult[] (useState, App.tsx:352)
    summary,        \* App state: CollectionSummary | null (App.tsx:353)
    analyzing,      \* App state (App.tsx:354)
    progress,       \* App state, a percentage kept as <<numerator, denominator>> (App.tsx:355)
    status,         \* App state, the status line (App.tsx:356)
    files,          \* argument of the handleUpload call in flight
    samples,        \* local of handleUpload (App.tsx:362)
    i,              \* loop index of handleUpload (App.tsx:364)
    resultsBuffer,  \* local of handleUpload (App.tsx:360)
    reader,         \* the FileReader of the current iteration: "none", "loading", "error"
    pc,             \* the await handleUpload is suspended at, "idle" when no run is in flight
    analyzeCalls,   \* history: the arguments of the analyzeAsset calls of the current run
    synthCalls,     \* history: the arguments of the synthesizeCollectionSummary calls of the run
    log,            \* history: the outcome of each sample whose analyzeAsset call settled
    lastError,      \* what the last console.error of the run reported: <<message, error>>
    dashResults,     \* aggregation: the results handed to AnalysisDashboard
    reportData      \* aggregation: the reportData memos computed so far, at most one

vars == <<results, summary, analyzing, progress, status, files, samples, i,
          resultsBuffer, reader, pc, analyzeCalls, synthCalls, log, lastError,
          dashResults, reportData>>

appVars == <<results, summary, analyzing, progress, status, files, samples, i,
             resultsBuffer, reader, pc, analyzeCalls, synthCalls, log, lastError>>

aggVars == <<dashResults, reportData>>

(***************************************************************************)
(* Bounds and program constants                                            *)
(***************************************************************************)
\* largest upload batch of a run
MaxFiles == 6

\* largest upload batch handed to the sampler on its own
MaxBatch == 7

\* files.length > 6 ... slice(0, 6)
SampleCap == 6

Min(a, b) == IF a < b THEN a ELSE b

Range(s) == {s[k] : k \in 1..Len(s)}

RECURSIVE Perms(_)
\* all orders of the elements of S, as sequences
Perms(S) ==
    IF S = {} THEN {<<>>}
    ELSE UNION {{<<x>> \o p : p \in Perms(S \ {x})} : x \in S}

\* An upload batch: File objects, told apart by their position in the batch.
Batch(n) == [k \in 1..n |-> k]

(***************************************************************************)
(* Sampler (App.tsx:362)                                                   *)
(***************************************************************************)
\* files.sort(() => 0.5 - Math.random()): the comparator is random, so the
\* order the sort leaves is any order of the same elements; order names it.
RandomSort(fs, order) == [k \in 1..Len(fs) |-> fs[order[k]]]

\* the orders a sort of fs can leave
SortOrders(fs) == Perms(1..Len(fs))

Slice(s, from, to) == SubSeq(s, from + 1, Min(to, Len(s)))

\* a sampler that draws each element independently, so with replacement
SamplerWithReplacement(fs, order) ==
    IF Len(fs) > SampleCap
    THEN [k \in 1..SampleCap |-> fs[order[((k * order[1]) % Len(fs)) + 1]]]
    ELSE fs

Sampler(fs, order) ==
    IF Len(fs) > SampleCap THEN Slice(RandomSort(fs, order), 0, SampleCap) ELSE fs

\* the choices of Math.random that matter to a call of the sampler
SamplerChoices(fs) ==
    IF Len(fs) > SampleCap THEN SortOrders(fs) ELSE {[k \in 1..Len(fs) |-> k]}

(***************************************************************************)
(* Asset Encoder and the two remote calls                                  *)
(***************************************************************************)
\* the null of the summary state (App.tsx:353)
null == [kind |-> "null"]

\* reader.readAsDataURL(file): the data URL of the file (App.tsx:369-373)
ReadAsDataURL(file) == <<"data:image", file>>

\* what the remote service can answer to generateContent
Responses == {"valid", "malformed", "unavailable"}

\* JSON.parse(response.text) of a valid answer: the fields of the answer the
\* dashboard reads (geminiService, line 68)
ParsedAnswer ==
    [colorDistribution |-> <<[name |-> "A", value |-> 50, hex |-> "#111"]>>,
     styleFeatures |-> <<"X">>]

\* analyzeAsset (geminiService): generateContent rejects, or JSON.parse of the
\* answer throws, or the parsed answer is returned with the local thumbnail.
\* The random id of the record is left out.
analyzeAsset(imageBase64, response) ==
    CASE response = "unavailable" -> [ok |-> FALSE, error |-> "RemoteServiceError"]
      [] response = "malformed"   -> [ok |-> FALSE, error |-> "ResponseFormatError"]
      [] response = "valid"       -> [ok |-> TRUE,
                                      value |-> [thumbnail |-> imageBase64,
                                                 colorDistribution |-> ParsedAnswer.colorDistribution,
                                                 styleFeatures |-> ParsedAnswer.styleFeatures]]

\* synthesizeCollectionSummary (geminiService): same failure modes, and the
\* parsed summary on success; the summary is told apart by the results it is of.
synthesizeCollectionSummary(rs, response) ==
    CASE response = "unavailable" -> [ok |-> FALSE, error |-> "RemoteServiceError"]
      [] response = "malformed"   -> [ok |-> FALSE, error |-> "ResponseFormatError"]
      [] response = "valid"       -> [ok |-> TRUE, value |-> [kind |-> "CollectionSummary", summaryOf |-> rs]]

(***************************************************************************)
(* Aggregator: AnalysisDashboard.reportData (App.tsx:38-69)                *)
(***************************************************************************)
\* largest results list handed to the dashboard
MaxResults == 2

\* longest colorDistribution list of a result
MaxColors == 3

\* .slice(0, 5)
TopColors == 5

\* the ColorData tuples the remote model answers with
ColorUniverse ==
    { [name |-> "A", value |-> 50, hex |-> "#111"],
      [name |-> "A", value |-> 50, hex |-> "#999"],
      [name |-> "A", value |-> 40, hex |-> "#111"],
      [name |-> "B", value |-> 60, hex |-> "#222"],
      [name |-> "C", value |-> 50, hex |-> "#333"],
      [name |-> "D", value |-> 20, hex |-> "#444"],
      [name |-> "E", value |-> 10, hex |-> "#555"],
      [name |-> "F", value |-> 30, hex |-> "#666"] }

ColorLists == UNION {[1..n -> ColorUniverse] : n \in 0..MaxColors}

\* the non-empty results lists the dashboard is rendered with
DashboardInputs ==
    UNION {[1..n -> [colorDistribution : ColorLists, styleFeatures : {<<>>}]] :
              n \in 1..MaxResults}

\* largest results list handed to the dashboard when the style tags vary
MaxStyleResults == 3

\* longest styleFeatures list of a result
MaxStyles == 2

\* .slice(0, 4)
TopStylesKept == 4

\* the style tags the remote model answers with
StyleUniverse == {"X", "Y", "Z", "W", "V"}

StyleLists == UNION {[1..n -> StyleUniverse] : n \in 0..MaxStyles}

\* the non-empty results lists the dashboard is rendered with, style tags varying
StyleInputs ==
    UNION {[1..n -> [colorDistribution : {<<>>}, styleFeatures : StyleLists]] :
              n \in 1..MaxStyleResults}

\* the key of colorMap that holds name, 0 if none; colorMap is kept as the
\* sequence of its entries in insertion order, the order of Object.entries
KeyIndex(colorMap, name) ==
    IF \E k \in 1..Len(colorMap) : colorMap[k].name = name
    THEN CHOOSE k \in 1..Len(colorMap) : colorMap[k].name = name
    ELSE 0

\* an assignment that keeps the hex the name was first seen with
SetColorKeepFirstHex(colorMap, c) ==
    LET k == KeyIndex(colorMap, c.name)
    IN  IF k = 0
        THEN Append(colorMap, [name |-> c.name, val |-> 0 + c.value, hex |-> c.hex])
        ELSE [colorMap EXCEPT ![k] = [name |-> c.name,
                                      val |-> colorMap[k].val + c.value,
                                      hex |-> colorMap[k].hex]]

\* colorMap[c.name] = { val: (colorMap[c.name]?.val || 0) + c.value, hex: c.hex }
\* (App.tsx:46-49)
SetColor(colorMap, c) ==
    LET k == KeyIndex(colorMap, c.name)
    IN  IF k = 0
        THEN Append(colorMap, [name |-> c.name, val |-> 0 + c.value, hex |-> c.hex])
        ELSE [colorMap EXCEPT ![k] = [name |-> c.name,
                                      val |-> colorMap[k].val + c.value,
                                      hex |-> c.hex]]

RECURSIVE MergeColors(_, _, _)
\* r.colorDistribution.forEach from its entry k on (App.tsx:45)
MergeColors(colorMap, cs, k) ==
    IF k > Len(cs) THEN colorMap
    ELSE MergeColors(SetColor(colorMap, cs[k]), cs, k + 1)

RECURSIVE MergeResults(_, _, _)
\* results.forEach from its entry k on (App.tsx:45)
MergeResults(colorMap, rs, k) ==
    IF k > Len(rs) THEN colorMap
    ELSE MergeResults(MergeColors(colorMap, rs[k].colorDistribution, 1), rs, k + 1)

\* a value that is the sum, not divided by the number of results
SummedValue(val, total) == [num |-> val, den |-> 1]

\* data.val / total (App.tsx:52); the quotient is kept exact, as the fraction
\* num / den with den > 0
AverageValue(val, total) == [num |-> val, den |-> total]

\* the sign of b.value - a.value (App.tsx:53): positive when a sorts after b
CompareDesc(a, b) == b.value.num * a.value.den - a.value.num * b.value.den

RECURSIVE InsertSorted(_, _, _)
\* x put into the sorted s[1..k] behind every entry it does not sort before
InsertSorted(s, x, k) ==
    IF k = 0 \/ CompareDesc(s[k], x) <= 0
    THEN SubSeq(s, 1, k) \o <<x>> \o SubSeq(s, k + 1, Len(s))
    ELSE InsertSorted(s, x, k - 1)

RECURSIVE SortDesc(_, _)
\* Array.prototype.sort with the comparator of App.tsx:53, a stable sort:
\* the first k entries of s, sorted
SortDesc(s, k) ==
    IF k = 0 THEN <<>>
    ELSE LET t == SortDesc(s, k - 1) IN InsertSorted(t, s[k], Len(t))

\* dominantColors (App.tsx:44-54)
DominantColors(rs) ==
    LET total == Len(rs)
        colorMap == MergeResults(<<>>, rs, 1)
        mapped == [k \in 1..Len(colorMap) |->
                      [name |-> colorMap[k].name,
                       value |-> AverageValue(colorMap[k].val, total),
                       hex |-> colorMap[k].hex]]
    IN  Slice(SortDesc(mapped, Len(mapped)), 0, TopColors)

RECURSIVE FlatMapStyles(_, _)
\* results.flatMap(r => r.styleFeatures) over the results 1..k (App.tsx:60)
FlatMapStyles(rs, k) ==
    IF k = 0 THEN <<>> ELSE FlatMapStyles(rs, k - 1) \o rs[k].styleFeatures

\* an add that keeps every tag, met before or not
ArrayPush(set, x) == Append(set, x)

\* Set.prototype.add: a Set keeps its elements in insertion order and ignores
\* an element it already holds; the Set is kept as the sequence of its elements
SetAdd(set, x) ==
    IF \E k \in 1..Len(set) : set[k] = x THEN set ELSE Append(set, x)

RECURSIVE NewSet(_, _)
\* new Set(array), adding the entries 1..k in order (App.tsx:60)
NewSet(array, k) ==
    IF k = 0 THEN <<>> ELSE SetAdd(NewSet(array, k - 1), array[k])

\* topStyles (App.tsx:60)
TopStyles(rs) ==
    LET flat == FlatMapStyles(rs, Len(rs))
    IN  Slice(NewSet(flat, Len(flat)), 0, TopStylesKept)

\* the reportData memo (App.tsx:38-69): total, the divisor of its averages
\* (App.tsx:39-42), and the fields the colour merge and the style tags decide
ReportData(rs) ==
    [total |-> Len(rs),
     dominantColors |-> DominantColors(rs),
     topStyles |-> TopStyles(rs)]

(***************************************************************************)
(* handleUpload (App.tsx:358-398)                                          *)
(***************************************************************************)
\* the uploader is on screen (App.tsx:412)
UploaderShown == ~analyzing /\ Len(results) = 0

\* a render that shows the dashboard whenever no run is analyzing
ShowsWhenIdle(an, rs) == ~an

\* the condition the dashboard is rendered under, an and rs being the
\* analyzing and results states of the render (App.tsx:428)
ShowsDashboard(an, rs) == ~an /\ Len(rs) > 0

\* the dashboard, and its reset button, is on screen (App.tsx:428)
DashboardShown == ShowsDashboard(analyzing, results)

\* the render that follows a change of analyzing or results: the dashboard
\* gets results as its prop and computes its memo, or is not rendered
\* (App.tsx:428-430, 38)
RenderDashboard(an, rs) ==
    /\ dashResults' = IF ShowsDashboard(an, rs) THEN rs ELSE <<>>
    /\ reportData' = IF ShowsDashboard(an, rs) THEN <<ReportData(rs)>> ELSE <<>>

\* the head of a loop iteration up to its await (App.tsx:365-375)
StartIteration(k, smp) ==
    /\ i' = k
    /\ status' = <<"sample", smp[k + 1], k + 1, Len(smp)>>
    /\ progress' = <<k * 100, Len(smp) + 1>>
    /\ reader' = "loading"
    /\ pc' = "base64Promise"

\* a run that synthesizes whatever the buffer holds
AlwaysSynthesize(buf) == TRUE

\* the guard of the synthesis call (App.tsx:387)
HasResults(buf) == Len(buf) > 0

\* the tail of the run (App.tsx:395-397), sum being the summary state it leaves
Finish(buf, sum) ==
    /\ progress' = <<100, 1>>
    /\ results' = buf
    /\ summary' = sum
    /\ analyzing' = FALSE
    /\ reader' = "none"
    /\ pc' = "idle"
    /\ RenderDashboard(FALSE, buf)

\* the loop increment and what follows it, buf being resultsBuffer after the
\* iteration: the next iteration, or the synthesis phase (App.tsx:384-390),
\* or, with nothing to synthesize, the tail of the run
AfterIteration(buf) ==
    /\ resultsBuffer' = buf
    /\ IF i + 1 < Len(samples)
       THEN /\ StartIteration(i + 1, samples)
            /\ UNCHANGED <<results, summary, analyzing, synthCalls>>
            /\ UNCHANGED aggVars
       ELSE /\ i' = i + 1
            /\ IF HasResults(buf)
               THEN /\ status' = <<"synthesis">>
                    /\ progress' = <<95, 1>>
                    /\ synthCalls' = Append(synthCalls, buf)
                    /\ reader' = "none"
                    /\ pc' = "synthesizeCollectionSummary"
                    /\ UNCHANGED <<results, summary, analyzing>>
                    /\ UNCHANGED aggVars
               ELSE /\ status' = <<"synthesis">>
                    /\ Finish(buf, summary)
                    /\ UNCHANGED synthCalls

\* handleUpload up to its first await. FileUploader calls it with a batch
\* that has a first file (App.tsx:219, 225), and only while it is on screen.
HandleUpload ==
    /\ pc = "idle"
    /\ UploaderShown
    /\ \E n \in 1..MaxFiles :
         \E order \in SamplerChoices(Batch(n)) :
            /\ files' = Batch(n)
            /\ samples' = Sampler(Batch(n), order)
            /\ StartIteration(0, Sampler(Batch(n), order))
    /\ analyzing' = TRUE
    /\ resultsBuffer' = <<>>
    /\ analyzeCalls' = <<>>
    /\ synthCalls' = <<>>
    /\ log' = <<>>
    /\ lastError' = <<"none", "none">>
    /\ UNCHANGED <<results, summary>>
    /\ RenderDashboard(TRUE, results)

\* a run that calls analyzeAsset without awaiting it and goes on to the next
\* sample while the call is in flight
EncodeLoadNoAwait ==
    /\ pc = "base64Promise"
    /\ reader = "loading"
    /\ analyzeCalls' = Append(analyzeCalls, ReadAsDataURL(samples[i + 1]))
    /\ IF i + 1 < Len(samples)
       THEN StartIteration(i + 1, samples)
       ELSE /\ reader' = "none"
            /\ pc' = "analyzeAsset"
            /\ UNCHANGED <<progress, status, i>>
    /\ UNCHANGED <<results, summary, analyzing, files, samples,
                   resultsBuffer, synthCalls, log, lastError>>
    /\ UNCHANGED aggVars

\* reader.onload fires: base64Promise resolves and the run calls analyzeAsset
\* (App.tsx:371, 375-377)
EncodeLoad ==
    /\ pc = "base64Promise"
    /\ reader = "loading"
    /\ reader' = "none"
    /\ analyzeCalls' = Append(analyzeCalls, ReadAsDataURL(samples[i + 1]))
    /\ pc' = "analyzeAsset"
    /\ UNCHANGED <<results, summary, analyzing, progress, status, files, samples, i,
                   resultsBuffer, synthCalls, log, lastError>>
    /\ UNCHANGED aggVars

\* the read fails: the reader fires its error event. No handler is set for it
\* and base64Promise has no reject path (App.tsx:370-373), so nothing resumes
\* the run.
EncodeError ==
    /\ pc = "base64Promise"
    /\ reader = "loading"
    /\ reader' = "error"
    /\ UNCHANGED <<results, summary, analyzing, progress, status, files, samples, i,
                   resultsBuffer, pc, analyzeCalls, synthCalls, log, lastError>>
    /\ UNCHANGED aggVars

\* a run that puts each new result in front of the buffer
AnalyzeResolveUnshift ==
    /\ pc = "analyzeAsset"
    /\ LET r == analyzeAsset(analyzeCalls[Len(analyzeCalls)], "valid")
       IN  AfterIteration(<<r.value>> \o resultsBuffer)
    /\ log' = Append(log, "ok")
    /\ UNCHANGED <<files, samples, analyzeCalls, lastError>>

\* analyzeAsset resolves: push, then on with the loop (App.tsx:377-378)
AnalyzeResolve ==
    /\ pc = "analyzeAsset"
    /\ LET r == analyzeAsset(analyzeCalls[Len(analyzeCalls)], "valid")
       IN  AfterIteration(Append(resultsBuffer, r.value))
    /\ log' = Append(log, "ok")
    /\ UNCHANGED <<files, samples, analyzeCalls, lastError>>

\* a run without the per-asset catch: the rejection ends handleUpload
AnalyzeRejectUncaught ==
    /\ pc = "analyzeAsset"
    /\ \E response \in Responses \ {"valid"} :
         LET r == analyzeAsset(analyzeCalls[Len(analyzeCalls)], response)
         IN  lastError' = <<"Uncaught (in promise)", r.error>>
    /\ pc' = "idle"
    /\ log' = Append(log, "failed")
    /\ UNCHANGED <<results, summary, analyzing, progress, status, files, samples, i,
                   resultsBuffer, reader, analyzeCalls, synthCalls>>
    /\ UNCHANGED aggVars

\* a run whose catch calls analyzeAsset again for the same sample
AnalyzeRejectRetry ==
    /\ pc = "analyzeAsset"
    /\ \E response \in Responses \ {"valid"} :
         LET r == analyzeAsset(analyzeCalls[Len(analyzeCalls)], response)
         IN  lastError' = <<"Analysis failed for a sample", r.error>>
    /\ analyzeCalls' = Append(analyzeCalls, analyzeCalls[Len(analyzeCalls)])
    /\ UNCHANGED <<results, summary, analyzing, progress, status, files, samples, i,
                   resultsBuffer, reader, pc, synthCalls, log>>
    /\ UNCHANGED aggVars

\* analyzeAsset rejects: the catch logs and the loop goes on (App.tsx:379-381)
AnalyzeReject ==
    /\ pc = "analyzeAsset"
    /\ \E response \in Responses \ {"valid"} :
         LET r == analyzeAsset(analyzeCalls[Len(analyzeCalls)], response)
         IN  lastError' = <<"Analysis failed for a sample", r.error>>
    /\ AfterIteration(resultsBuffer)
    /\ log' = Append(log, "failed")
    /\ UNCHANGED <<files, samples, analyzeCalls>>

\* synthesizeCollectionSummary resolves: setSummary, then the tail (App.tsx:388-397)
SynthResolve ==
    /\ pc = "synthesizeCollectionSummary"
    /\ LET r == synthesizeCollectionSummary(synthCalls[Len(synthCalls)], "valid")
       IN  Finish(resultsBuffer, r.value)
    /\ UNCHANGED <<status, files, samples, i, resultsBuffer, analyzeCalls, synthCalls,
                   log, lastError>>

\* a run without the catch around the synthesis: the rejection ends handleUpload
SynthRejectUncaught ==
    /\ pc = "synthesizeCollectionSummary"
    /\ \E response \in Responses \ {"valid"} :
         LET r == synthesizeCollectionSummary(synthCalls[Len(synthCalls)], response)
         IN  lastError' = <<"Uncaught (in promise)", r.error>>
    /\ pc' = "idle"
    /\ UNCHANGED <<results, summary, analyzing, progress, status, files, samples, i,
                   resultsBuffer, reader, analyzeCalls, synthCalls, log>>
    /\ UNCHANGED aggVars

\* synthesizeCollectionSummary rejects: the catch logs, then the tail (App.tsx:391-397)
SynthReject ==
    /\ pc = "synthesizeCollectionSummary"
    /\ \E response \in Responses \ {"valid"} :
         LET r == synthesizeCollectionSummary(synthCalls[Len(synthCalls)], response)
         IN  lastError' = <<"Aggregation failed", r.error>>
    /\ Finish(resultsBuffer, summary)
    /\ UNCHANGED <<status, files, samples, i, resultsBuffer, analyzeCalls, synthCalls, log>>

\* a reset that leaves the summary in place
ResetKeepsSummary ==
    /\ DashboardShown
    /\ results' = <<>>
    /\ analyzing' = FALSE
    /\ progress' = <<0, 1>>
    /\ UNCHANGED <<summary, status, files, samples, i, resultsBuffer, reader, pc,
                   analyzeCalls, synthCalls, log, lastError>>
    /\ RenderDashboard(FALSE, <<>>)

\* reset (App.tsx:400-405), the dashboard's onReset (App.tsx:429)
Reset ==
    /\ DashboardShown
    /\ results' = <<>>
    /\ summary' = null
    /\ analyzing' = FALSE
    /\ progress' = <<0, 1>>
    /\ UNCHANGED <<status, files, samples, i, resultsBuffer, reader, pc, analyzeCalls,
                   synthCalls, log, lastError>>
    /\ RenderDashboard(FALSE, <<>>)

Init ==
    /\ results = <<>>
    /\ summary = null
    /\ analyzing = FALSE
    /\ progress = <<0, 1>>
    /\ status = <<>>
    /\ files = <<>>
    /\ samples = <<>>
    /\ i = 0
    /\ resultsBuffer = <<>>
    /\ reader = "none"
    /\ pc = "idle"
    /\ analyzeCalls = <<>>
    /\ synthCalls = <<>>
    /\ log = <<>>
    /\ lastError = <<"none", "none">>
    /\ dashResults = <<>>
    /\ reportData = <<>>

\* a step of the run in flight
RunStep ==
    \/ EncodeLoad
    \/ EncodeError
    \/ AnalyzeResolve
    \/ AnalyzeReject
    \/ SynthResolve
    \/ SynthReject

Next ==
    \/ HandleUpload
    \/ EncodeLoad
    \/ EncodeError
    \/ AnalyzeResolve
    \/ AnalyzeReject
    \/ SynthResolve
    \/ SynthReject
    \/ Reset

Spec == Init /\ [][Next]_vars

(***************************************************************************)
(* The sampler on its own: one call on a batch of any size up to MaxBatch  *)
(***************************************************************************)
SamplerSelect ==
    /\ pc = "idle"
    /\ \E n \in 0..MaxBatch :
         \E order \in SamplerChoices(Batch(n)) :
            /\ files' = Batch(n)
            /\ samples' = Sampler(Batch(n), order)
    /\ pc' = "sampled"
    /\ UNCHANGED <<results, summary, analyzing, progress, status, i, resultsBuffer,
                   reader, analyzeCalls, synthCalls, log, lastError>>
    /\ UNCHANGED aggVars

SamplerNext == SamplerSelect

SamplerSpec == Init /\ [][SamplerNext]_vars

(***************************************************************************)
(* The dashboard on its own: one render on a results list                  *)
(***************************************************************************)
\* the dashboard is rendered and computes its memo
Render ==
    /\ reportData = <<>>
    /\ reportData' = <<ReportData(dashResults)>>
    /\ UNCHANGED dashResults
    /\ UNCHANGED appVars

AggInit ==
    /\ results = <<>>
    /\ summary = null
    /\ analyzing = FALSE
    /\ progress = <<0, 1>>
    /\ status = <<>>
    /\ files = <<>>
    /\ samples = <<>>
    /\ i = 0
    /\ resultsBuffer = <<>>
    /\ reader = "none"
    /\ pc = "idle"
    /\ analyzeCalls = <<>>
    /\ synthCalls = <<>>
    /\ log = <<>>
    /\ lastError = <<"none", "none">>
    /\ dashResults \in DashboardInputs
    /\ reportData = <<>>

AggNext == Render

AggSpec == AggInit /\ [][AggNext]_vars

StyleInit ==
    /\ results = <<>>
    /\ summary = null
    /\ analyzing = FALSE
    /\ progress = <<0, 1>>
    /\ status = <<>>
    /\ files = <<>>
    /\ samples = <<>>
    /\ i = 0
    /\ resultsBuffer = <<>>
    /\ reader = "none"
    /\ pc = "idle"
    /\ analyzeCalls = <<>>
    /\ synthCalls = <<>>
    /\ log = <<>>
    /\ lastError = <<"none", "none">>
    /\ dashResults \in StyleInputs
    /\ reportData = <<>>

StyleNext == Render

StyleSpec == StyleInit /\ [][StyleNext]_vars

(***************************************************************************)
(* Properties of the upload run                                            *)
(***************************************************************************)
\* a run has been started and has run to its end
RunEnded == pc = "idle" /\ Len(samples) > 0

\* the number of entries of s equal to x
Count(s, x) == Cardinality({k \in 1..Len(s) : s[k] = x})

RECURSIVE Survivors(_, _, _)
\* the records of the samples 1..k of smp whose outcome in lg is "ok", in sample order
Survivors(smp, lg, k) ==
    IF k = 0 THEN <<>>
    ELSE IF lg[k] = "ok"
         THEN Append(Survivors(smp, lg, k - 1),
                     [thumbnail |-> <<"data:image", smp[k]>>,
                      colorDistribution |-> <<[name |-> "A", value |-> 50, hex |-> "#111"]>>,
                      styleFeatures |-> <<"X">>])
         ELSE Survivors(smp, lg, k - 1)

\* the step in which the analyzeAsset call of sample i + 1 fails
AnalyzeFailedStep == pc = "analyzeAsset" /\ log' = Append(log, "failed")

\* C1: when the Analyzer call of a sampled asset fails (remote failure or
\* unparsable answer), the failure is caught: nothing is added to the results
\* buffer, the loop goes on to the next asset (or, after the last one, to the
\* synthesis phase or the end of the run), and the run is not aborted.
C1_AnalyzerFailureIsCaught ==
    [][AnalyzeFailedStep =>
         /\ lastError'[2] \in {"RemoteServiceError", "ResponseFormatError"}
         /\ resultsBuffer' = resultsBuffer
         /\ i' = i + 1
         /\ IF i + 1 < Len(samples)
            THEN analyzing' /\ pc' = "base64Promise" /\ reader' = "loading"
            ELSE \/ pc' = "synthesizeCollectionSummary" /\ analyzing' /\ Len(resultsBuffer) > 0
                 \/ pc' = "idle" /\ ~analyzing' /\ results' = resultsBuffer]_vars

\* the failure scenario: two files, the Analyzer call of the first fails with a
\* remote failure, the run ends with one result
C1_Witness ==
    /\ RunEnded
    /\ Len(samples) = 2
    /\ log = <<"failed", "ok">>
    /\ lastError = <<"Analysis failed for a sample", "RemoteServiceError">>
    /\ ~analyzing
    /\ Len(results) = 1

\* C2: a failed read of a sampled asset does not stall or abort the run: the
\* run is resumed (to skip the asset and go on) or has ended.
C2_EncodingFailureSkipsAsset ==
    reader = "error" => (ENABLED RunStep \/ ~analyzing)

\* C3: at the end of a run the results buffer is the subsequence of the sample
\* set made of the assets whose analysis succeeded, in sample order, with no
\* placeholder for the failed ones; it is what the run publishes.
C3_BufferIsSurvivorsInOrder ==
    RunEnded =>
        /\ Len(log) = Len(samples)
        /\ resultsBuffer = Survivors(samples, log, Len(samples))
        /\ Len(resultsBuffer) = Len(samples) - Count(log, "failed")
        /\ (DashboardShown => results = resultsBuffer)

\* a run of six samples with failures in the middle and survivors around them
C3_Witness ==
    /\ RunEnded
    /\ log = <<"ok", "failed", "ok", "failed", "failed", "ok">>
    /\ Len(resultsBuffer) = 3
    /\ results = resultsBuffer

\* C4: the Synthesizer is never called with an empty results sequence, and a
\* run in which every Analyzer call failed does not call it and leaves the
\* summary absent.
C4_NoSynthesisOfNothing ==
    /\ \A k \in 1..Len(synthCalls) : Len(synthCalls[k]) > 0
    /\ (RunEnded /\ Count(log, "failed") = Len(samples)) =>
            (synthCalls = <<>> /\ summary = null)

\* a run of three samples whose Analyzer calls all failed
C4_Witness ==
    /\ RunEnded
    /\ log = <<"failed", "failed", "failed">>
    /\ synthCalls = <<>>
    /\ summary = null

\* the step in which the synthesis call fails
SynthFailedStep == pc = "synthesizeCollectionSummary" /\ lastError' # lastError

\* C5: when the synthesis call fails (the run then has at least one result),
\* the failure is caught: the run completes with progress 100 and analyzing
\* false, its results are published, and the summary is absent.
C5_SynthesisFailureIsCaught ==
    [][SynthFailedStep =>
         /\ lastError'[1] = "Aggregation failed"
         /\ pc' = "idle"
         /\ progress' = <<100, 1>>
         /\ ~analyzing'
         /\ Len(resultsBuffer) > 0
         /\ results' = resultsBuffer
         /\ summary' = null]_vars

\* a run with survivors whose synthesis call failed, on display
C5_Witness ==
    /\ RunEnded
    /\ lastError = <<"Aggregation failed", "ResponseFormatError">>
    /\ DashboardShown
    /\ Len(results) = 2
    /\ progress = <<100, 1>>
    /\ summary = null

\* C6: in every state, a summary is present only if the results list is not empty.
C6_SummaryOnlyWithResults ==
    summary # null => Len(results) > 0

\* a summary on display, and the state a reset of it leaves
C6_Witness ==
    /\ summary # null
    /\ Len(results) > 0
    /\ summary.summaryOf = results

\* C7: no retry: the Analyzer calls of a run are one call per sample whose read
\* completed, in sample order, each made once whether it succeeds or fails;
\* the Synthesizer is called at most once per run.
C7_NoRetry ==
    /\ Len(analyzeCalls) = Len(log) + (IF pc = "analyzeAsset" THEN 1 ELSE 0)
    /\ Len(analyzeCalls) <= Len(samples)
    /\ \A k \in 1..Len(analyzeCalls) : analyzeCalls[k] = <<"data:image", samples[k]>>
    /\ Len(synthCalls) <= 1

\* a run in which Analyzer calls failed and the synthesis call failed
C7_Witness ==
    /\ RunEnded
    /\ Count(log, "failed") = 2
    /\ Len(analyzeCalls) = 4
    /\ Len(synthCalls) = 1
    /\ lastError[1] = "Aggregation failed"

(***************************************************************************)
(* Properties of the sampler                                               *)
(***************************************************************************)
\* the positions of the batch that hold the file x
PositionsOf(fs, x) == {p \in 1..Len(fs) : fs[p] = x}

\* C8: the sampler returns min(len(batch), 6) elements taken from pairwise
\* distinct positions of the batch; a batch of at most 6 is returned unchanged,
\* a larger one gives exactly 6 elements of the batch, none chosen twice.
C8_SamplerTakesDistinctUpToCap ==
    pc = "sampled" =>
        /\ Len(samples) = Min(Len(files), 6)
        /\ \A k \in 1..Len(samples) : PositionsOf(files, samples[k]) # {}
        /\ \A j, k \in 1..Len(samples) :
              j # k => PositionsOf(files, samples[j]) \cap PositionsOf(files, samples[k]) = {}
        /\ (Len(files) <= 6 => samples = files)
        /\ (Len(files) > 6 => Len(samples) = 6 /\ Cardinality(Range(samples)) = 6)

\* a batch of seven sampled down to six, not in batch order
C8_Witness ==
    /\ pc = "sampled"
    /\ Len(files) = 7
    /\ samples = <<7, 3, 1, 6, 2, 5>>

(***************************************************************************)
(* Properties of the colour merge                                          *)
(***************************************************************************)
RECURSIVE AllColors(_, _)
\* the colorDistribution lists of the results 1..k, one after the other
AllColors(rs, k) ==
    IF k = 0 THEN <<>> ELSE AllColors(rs, k - 1) \o rs[k].colorDistribution

\* the places of the flattened colour list that carry name
PlacesOf(cs, name) == {k \in 1..Len(cs) : cs[k].name = name}

RECURSIVE SumAt(_, _)
\* the sum of the values of cs at the places P
SumAt(cs, P) ==
    IF P = {} THEN 0
    ELSE LET k == CHOOSE k \in P : TRUE IN cs[k].value + SumAt(cs, P \ {k})

FirstPlace(cs, name) == CHOOSE k \in PlacesOf(cs, name) : \A j \in PlacesOf(cs, name) : k <= j

LastPlace(cs, name) == CHOOSE k \in PlacesOf(cs, name) : \A j \in PlacesOf(cs, name) : k >= j

\* the memo has been computed
Rendered == Len(reportData) = 1

\* the colours of the rendered memo
Dominant == reportData[1].dominantColors

\* the flattened colours of the rendered input
InputColors == AllColors(dashResults, Len(dashResults))

\* name occurs in the input with two different hex values
HexCollision(name) ==
    \E j, k \in PlacesOf(InputColors, name) : InputColors[j].hex # InputColors[k].hex

\* C9 as stated: a colour name met with differing hex values keeps the hex it
\* was first seen with (in results order, then list order).
C9_FirstSeenHexWins ==
    Rendered =>
        \A k \in 1..Len(Dominant) :
            Dominant[k].hex = InputColors[FirstPlace(InputColors, Dominant[k].name)].hex

\* C9 amended: a colour name met with differing hex values carries the hex it
\* was last seen with (in results order, then list order); earlier hex values
\* are overwritten.
C9_LastSeenHexWins ==
    Rendered =>
        \A k \in 1..Len(Dominant) :
            Dominant[k].hex = InputColors[LastPlace(InputColors, Dominant[k].name)].hex

\* A first seen as #111 in the first result and last as #999 in the second
C9_Witness ==
    /\ Rendered
    /\ HexCollision("A")
    /\ InputColors[FirstPlace(InputColors, "A")].hex = "#111"
    /\ InputColors[LastPlace(InputColors, "A")].hex = "#999"
    /\ Len(dashResults) = 2
    /\ \E k \in 1..Len(Dominant) : Dominant[k].name = "A" /\ Dominant[k].hex = "#999"

\* the names of the input colours
InputNames == {InputColors[k].name : k \in 1..Len(InputColors)}

\* the fraction v is at least the fraction w
AtLeast(v, w) == v.num * w.den >= w.num * v.den

\* C10: for a non-empty results list of size N, dominantColors has one entry
\* per kept colour name, each entry's value is the sum of that name's values
\* over all results divided by N, the entries are in descending order of
\* value, and the top 5 at most are kept: min(5, number of names) entries,
\* none of the names left out having a greater value than a kept one.
C10_DominantColorsAveragedSortedTop5 ==
    Rendered =>
        LET N == Len(dashResults)
            Avg(name) == [num |-> SumAt(InputColors, PlacesOf(InputColors, name)), den |-> N]
            Kept == {Dominant[k].name : k \in 1..Len(Dominant)}
        IN  /\ Kept \subseteq InputNames
            /\ Cardinality(Kept) = Len(Dominant)
            /\ Len(Dominant) = Min(5, Cardinality(InputNames))
            /\ \A k \in 1..Len(Dominant) :
                  /\ Dominant[k].value.den > 0
                  /\ Dominant[k].value.num * N
                        = SumAt(InputColors, PlacesOf(InputColors, Dominant[k].name))
                             * Dominant[k].value.den
            /\ \A k \in 1..(Len(Dominant) - 1) :
                  AtLeast(Dominant[k].value, Dominant[k + 1].value)
            /\ \A name \in InputNames \ Kept :
                  \A k \in 1..Len(Dominant) : AtLeast(Dominant[k].value, Avg(name))
            /\ (dashResults = <<[colorDistribution |->
                                   <<[name |-> "A", value |-> 50, hex |-> "#111"]>>,
                                   styleFeatures |-> <<>>],
                                 [colorDistribution |->
                                   <<[name |-> "A", value |-> 50, hex |-> "#111"]>>,
                                   styleFeatures |-> <<>>]>>
                  => /\ Len(Dominant) = 1
                     /\ Dominant[1].name = "A"
                     /\ Dominant[1].value.num = 50 * Dominant[1].value.den)
            /\ (dashResults = <<[colorDistribution |->
                                   <<[name |-> "A", value |-> 40, hex |-> "#111"],
                                     [name |-> "B", value |-> 60, hex |-> "#222"]>>,
                                   styleFeatures |-> <<>>]>>
                  => Dominant = <<[name |-> "B", value |-> [num |-> 60, den |-> 1],
                                   hex |-> "#222"],
                                  [name |-> "A", value |-> [num |-> 40, den |-> 1],
                                   hex |-> "#111"]>>)

\* two results with six colour names between them: each value is halved, the
\* five greatest are kept in descending order and the least, E, is dropped
C10_Witness ==
    /\ Rendered
    /\ Len(dashResults) = 2
    /\ Cardinality(InputNames) = 6
    /\ Len(Dominant) = 5
    /\ Dominant[1] = [name |-> "B", value |-> [num |-> 60, den |-> 2], hex |-> "#222"]
    /\ Dominant[5] = [name |-> "D", value |-> [num |-> 20, den |-> 2], hex |-> "#444"]
    /\ \A k \in 1..5 : Dominant[k].name # "E"
    /\ dashResults[1].colorDistribution[1].name = "E"

(***************************************************************************)
(* Properties of the style tag summary                                     *)
(***************************************************************************)
RECURSIVE AllStyles(_, _)
\* the styleFeatures lists of the results 1..k, one after the other
AllStyles(rs, k) ==
    IF k = 0 THEN <<>> ELSE AllStyles(rs, k - 1) \o rs[k].styleFeatures

\* the flattened style tags of the rendered input
InputStyles == AllStyles(dashResults, Len(dashResults))

\* the places of the flattened tags where a tag occurs for the first time
FirstOccurrences == {k \in 1..Len(InputStyles) : \A j \in 1..(k - 1) : InputStyles[j] # InputStyles[k]}

\* the m-th first occurrence, in list order
NthFirst(m) ==
    CHOOSE k \in FirstOccurrences : Cardinality({j \in FirstOccurrences : j < k}) = m - 1

\* the style tags of the rendered memo
TopStylesOut == reportData[1].topStyles

\* C11: topStyles is the concatenation of all styleFeatures lists in results
\* order with duplicates removed, each tag kept at its first occurrence,
\* truncated to its first 4 entries; so it has no duplicates and at most 4
\* entries, and [["X","Y"],["Y","Z"],["W"]] gives ["X","Y","Z","W"].
C11_TopStylesFirstOccurrenceTop4 ==
    Rendered =>
        /\ Len(TopStylesOut) = Min(4, Cardinality(FirstOccurrences))
        /\ Len(TopStylesOut) <= 4
        /\ \A m \in 1..Len(TopStylesOut) : TopStylesOut[m] = InputStyles[NthFirst(m)]
        /\ \A j, k \in 1..Len(TopStylesOut) : j # k => TopStylesOut[j] # TopStylesOut[k]
        /\ ([k \in 1..Len(dashResults) |-> dashResults[k].styleFeatures]
               = <<<<"X", "Y">>, <<"Y", "Z">>, <<"W">>>>
              => TopStylesOut = <<"X", "Y", "Z", "W">>)

\* three results with five tags between them, one repeated: the repeat is
\* dropped and the fifth tag is cut off
C11_Witness ==
    /\ Rendered
    /\ [k \in 1..Len(dashResults) |-> dashResults[k].styleFeatures]
          = <<<<"X", "Y">>, <<"Y", "Z">>, <<"W", "V">>>>
    /\ TopStylesOut = <<"X", "Y", "Z", "W">>

(***************************************************************************)
(* Properties of the order of the I/O of a run                             *)
(***************************************************************************)
\* the file reads under way
ReadsOutstanding == IF reader = "loading" THEN 1 ELSE 0

\* the analyzeAsset calls made and not yet settled
AnalyzeOutstanding == Len(analyzeCalls) - Len(log)

\* the synthesis calls made by a run that has not ended
SynthOutstanding == IF pc = "idle" THEN 0 ELSE Len(synthCalls)

\* C12: the per-asset steps of a run are sequential: while the read of a
\* sample is under way the Analyzer calls of all the samples before it have
\* been made and have settled, the synthesis call is made only after the
\* Analyzer call of the last sample has settled, and at most one file read or
\* remote call of the run is outstanding at any time.
C12_OneOutstandingIO ==
    /\ reader = "loading" => (Len(analyzeCalls) = i /\ Len(log) = i)
    /\ Len(synthCalls) > 0 => (Len(analyzeCalls) = Len(samples) /\ Len(log) = Len(samples))
    /\ ReadsOutstanding + AnalyzeOutstanding + SynthOutstanding <= 1

\* the read of the sixth sample under way, the five calls before it settled,
\* the last of them failed
C12_Witness ==
    /\ reader = "loading"
    /\ Len(samples) = 6
    /\ i = 5
    /\ Len(log) = 5
    /\ log[5] = "failed"
    /\ ReadsOutstanding + AnalyzeOutstanding + SynthOutstanding = 1

(***************************************************************************)
(* Properties of the rendering of the dashboard                            *)
(***************************************************************************)
\* C13: the Aggregator is never evaluated on an empty results list: in every
\* state, over any runs (those in which every asset fails included) and
\* resets, the dashboard is rendered, and its memo computed, only when no run
\* is analyzing and the results list is non-empty, so the memo never divides
\* by zero.
C13_DashboardOnlyWithResults ==
    Rendered =>
        /\ reportData[1].total > 0
        /\ ~analyzing
        /\ Len(results) > 0
        /\ dashResults = results

\* the dashboard rendered on the one survivor of a run of six samples
C13_Witness ==
    /\ Rendered
    /\ reportData[1].total = 1
    /\ Len(samples) = 6
    /\ Count(log, "failed") = 5
    /\ dashResults = results

====
